---- MODULE Spec2Model ----
(***************************************************************************)
(* Application Decision Pipeline: MasterAgent.process                      *)
(* (src/app/agents/master_agent.py) driving the stages extraction,         *)
(* validation and eligibility over a per-run workflow_state.               *)
(*                                                                         *)
(* Confidences are integers in units of 1/60 (60 = 1.0, 6 = 0.1), so that  *)
(* the mean of one, two or three values is exact.                          *)
(***************************************************************************)
EXTENDS Integers, Sequences, FiniteSets, TLC

VARIABLES
    calls,        \* the runs of process that the caller starts
    pc,           \* per run: position inside MasterAgent.process
    arg,          \* per run: kind of the argument handed to process
    input_data,   \* per run: the local input_data dict (key -> value)
    step_idx,     \* per run: loop index into workflow_steps
    workflow,     \* per context: the workflow_state dict
    inflight,     \* per run: stages whose agent.process has not returned
    invoked,      \* per run: log of the agent.process calls made
    outcomes,     \* per run: log of what each agent.process call produced
    final_result, \* per run: the local final_result of process
    ret,          \* per run: what process handed back to its caller
    uuid_ctr,     \* number of workflow ids generated so far
    v_pc,         \* position inside ValidationAgent.process
    v_in,         \* the input_data handed to ValidationAgent.process
    v_result,     \* the local validation_result of ValidationAgent.process
    v_ret         \* what ValidationAgent.process handed back

mvars == <<calls, pc, arg, input_data, step_idx, workflow, inflight, invoked,
           outcomes, final_result, ret, uuid_ctr>>

vvars == <<v_pc, v_in, v_result, v_ret>>

vars == <<mvars, vvars>>

----------------------------------------------------------------------------
(* Values *)

Runs == {"r1", "r2"}

ConfLevels == {30, 60}

None == [is_none |-> TRUE]

NoContext == [status |-> "unset"]

NoReturn == [kind |-> "pending"]

\* variant: validation listed before extraction
WorkflowStepsSwapped == <<"validation", "extraction", "eligibility">>

\* variant: the eligibility stage is listed twice
WorkflowStepsRepeated == <<"extraction", "validation", "eligibility", "eligibility">>

\* MasterAgent.__init__: self.workflow_steps
WorkflowSteps == <<"extraction", "validation", "eligibility">>

\* MasterAgent.__init__: self.agents
Agents == {"extraction", "validation", "eligibility"}

\* BaseAgent.create_error_result
CreateErrorResult(msg) ==
    [success |-> FALSE, data |-> None, error |-> msg, confidence_score |-> 0]

\* BaseAgent.create_success_result
CreateSuccessResult(data, confidence) ==
    [success |-> TRUE, data |-> data, error |-> "", confidence_score |-> confidence]

\* BaseAgent.validate_input: isinstance(input_data, dict)
ValidateInput(a) == a = "dict"

\* What one call of agent.process can do: return a success result (whose
\* payload is a mapping or absent), return an error result, or raise.
\* A payload with a 'confidence' entry is reported with that confidence
\* (ValidationAgent.process); one without it with any confidence
\* (ExtractionAgent.process, EligibilityAgent.process).
AgentOutcomes ==
    {[raised |-> FALSE,
      result |-> CreateSuccessResult([content |-> "stage_output"], c)] :
        c \in ConfLevels}
    \cup {[raised |-> FALSE,
           result |-> CreateSuccessResult(
                         [content |-> "stage_output", confidence |-> c], c)] :
        c \in ConfLevels}
    \cup {[raised |-> FALSE, result |-> CreateSuccessResult(None, 60)]}
    \cup {[raised |-> FALSE, result |-> CreateErrorResult("agent_error")]}
    \cup {[raised |-> TRUE, result |-> CreateErrorResult("exception")]}

ArgKinds == {"dict", "not_a_dict"}

\* The dict the API layer hands to process (src/app/api/main.py)
InitialInput ==
    [application_data |-> [content |-> "application_data"],
     documents |-> [content |-> "documents"]]

EmptyDict == [k \in {} |-> None]

\* d[k] = v on a dict
Put(d, k, v) == [x \in DOMAIN d \cup {k} |-> IF x = k THEN v ELSE d[x]]

\* f'{step_name}_result'
ResultKey(step) ==
    CASE step = "extraction" -> "extraction_result"
      [] step = "validation" -> "validation_result"
      [] step = "eligibility" -> "eligibility_result"

Min(a, b) == IF a < b THEN a ELSE b

Max(a, b) == IF a > b THEN a ELSE b

----------------------------------------------------------------------------
(* MasterAgent helpers *)

\* variant: the workflow_state is kept on the shared MasterAgent
SharedContext(r) == "r1"

\* The workflow_state a run writes to: a local of its own call of process
OwnContext(r) == r

\* workflow_state as built at the start of process
NewWorkflowState(id) ==
    [workflow_id |-> id,
     current_step |-> 0,
     total_steps |-> Len(WorkflowSteps),
     results |-> EmptyDict,
     errors |-> <<>>,
     status |-> "processing",
     end_time |-> FALSE]

ProcessingStatus(step) ==
    CASE step = "extraction" -> "processing_extraction"
      [] step = "validation" -> "processing_validation"
      [] step = "eligibility" -> "processing_eligibility"

RECURSIVE MergePrevious(_, _, _)
\* the loop of _prepare_step_input over workflow_state['results']
MergePrevious(step_input, results, todo) ==
    IF todo = <<>> THEN step_input
    ELSE LET prev == Head(todo)
             merged == IF prev \in DOMAIN step_input
                       THEN Put(step_input, ResultKey(prev), results[prev])
                       ELSE Put(step_input, prev, results[prev])
         IN  MergePrevious(merged, results, Tail(todo))

\* keys of results in insertion order, which is the order of workflow_steps
ResultOrder(results) == SelectSeq(WorkflowSteps, LAMBDA s : s \in DOMAIN results)

PrepareStepInput(step, inp, ws) ==
    Put(MergePrevious(inp, ws.results, ResultOrder(ws.results)),
        "workflow_context",
        [workflow_id |-> ws.workflow_id,
         current_step |-> step,
         previous_results |-> ws.results])

\* variant: an exception of the agent is taken for a result without payload
ExecuteAgentStepSwallow(step, outcome) ==
    IF step \notin Agents THEN CreateErrorResult("agent_not_found")
    ELSE IF outcome.raised THEN CreateSuccessResult(EmptyDict, 0)
    ELSE outcome.result

\* _execute_agent_step after agent.process came back: an exception of the
\* agent becomes an error result
ExecuteAgentStep(step, outcome) ==
    IF step \notin Agents THEN CreateErrorResult("agent_not_found")
    ELSE IF outcome.raised THEN CreateErrorResult("step_execution_failed")
    ELSE outcome.result

\* _prepare_input_for_next_step; 'resolved_data' in None raises TypeError
PrepareInputForNextStep(step, step_result, current_input) ==
    LET next_input == Put(current_input, ResultKey(step), step_result.data)
    IN  IF step = "extraction" /\ step_result.success
        THEN [raised |-> FALSE,
              value |-> Put(next_input, "extracted_data", step_result.data)]
        ELSE IF step = "validation" /\ step_result.success
        THEN IF step_result.data = None
             THEN [raised |-> TRUE, value |-> current_input]
             ELSE IF "resolved_data" \in DOMAIN step_result.data
             THEN [raised |-> FALSE,
                   value |-> Put(Put(next_input, "validation_result", step_result.data),
                                 "validated_application_data",
                                 step_result.data.resolved_data)]
             ELSE [raised |-> FALSE,
                   value |-> Put(next_input, "validation_result", step_result.data)]
        ELSE IF step = "eligibility" /\ step_result.success
        THEN [raised |-> FALSE,
              value |-> Put(next_input, "eligibility_result", step_result.data)]
        ELSE [raised |-> FALSE, value |-> next_input]

\* variants of the fail-fast policy
ShouldContinueAlways(step) == TRUE

ShouldContinueNever(step) == FALSE

ShouldContinueAfterError(step) ==
    LET critical_steps == {"extraction"}
    IN  step \notin critical_steps

\* variant: the error list is looked at before the abort
DetermineFinalStatusErrorsFirst(ws) ==
    IF ws.errors # <<>> THEN "completed_with_errors"
    ELSE IF ws.status = "failed" THEN "failed"
    ELSE IF Cardinality(DOMAIN ws.results) = Len(WorkflowSteps)
    THEN "completed_successfully"
    ELSE "incomplete"

\* variant: the number of results is looked at before the error list
DetermineFinalStatusCountFirst(ws) ==
    IF ws.status = "failed" THEN "failed"
    ELSE IF Cardinality(DOMAIN ws.results) # Len(WorkflowSteps) THEN "incomplete"
    ELSE IF ws.errors # <<>> THEN "completed_with_errors"
    ELSE "completed_successfully"

\* variant: a run without abort or error keeps its processing status
DetermineFinalStatusKeep(ws) ==
    IF ws.status = "failed" THEN "failed"
    ELSE IF ws.errors # <<>> THEN "completed_with_errors"
    ELSE ws.status

DetermineFinalStatus(ws) ==
    IF ws.status = "failed" THEN "failed"
    ELSE IF ws.errors # <<>> THEN "completed_with_errors"
    ELSE IF Cardinality(DOMAIN ws.results) = Len(WorkflowSteps)
    THEN "completed_successfully"
    ELSE "incomplete"

ErrorRecord(step, msg) == [step |-> step, error |-> msg]

\* The body of the stage loop once _execute_agent_step has returned
\* step_result: record the result or the error, apply the fail-fast policy,
\* derive the next input. An exception of the body takes the except branch.
StepBody(ws, inp, step, step_result) ==
    IF step_result.success
    THEN LET ws1 == [ws EXCEPT !.results = Put(@, step, step_result.data)]
             prep == PrepareInputForNextStep(step, step_result, inp)
         IN  IF ~prep.raised
             THEN [ws |-> ws1, inp |-> prep.value, brk |-> FALSE]
             ELSE LET ws2 == [ws1 EXCEPT !.errors =
                                 Append(@, ErrorRecord(step, "unexpected_error"))]
                  IN  IF ~ShouldContinueAfterError(step)
                      THEN [ws |-> [ws2 EXCEPT !.status = "failed"],
                            inp |-> inp, brk |-> TRUE]
                      ELSE [ws |-> ws2, inp |-> inp, brk |-> FALSE]
    ELSE LET ws1 == [ws EXCEPT !.errors =
                        Append(@, ErrorRecord(step, step_result.error))]
         IN  IF ~ShouldContinueAfterError(step)
             THEN [ws |-> [ws1 EXCEPT !.status = "failed"],
                   inp |-> inp, brk |-> TRUE]
             ELSE [ws |-> ws1,
                   inp |-> PrepareInputForNextStep(step, step_result, inp).value,
                   brk |-> FALSE]

RECURSIVE AddStepResults(_, _, _)
\* aggregated_result[f'{step_name}_result'] = result, for every stage result
AddStepResults(agg, results, todo) ==
    IF todo = <<>> THEN agg
    ELSE AddStepResults(Put(agg, ResultKey(Head(todo)), results[Head(todo)]),
                        results, Tail(todo))

\* _aggregate_workflow_results; the keys of results are stage names
AggregateWorkflowResults(ws) ==
    LET base == [workflow_id |-> [content |-> ws.workflow_id],
                 status |-> [content |-> ws.status],
                 completed_steps |-> [content |-> Cardinality(DOMAIN ws.results)],
                 errors |-> [content |-> ws.errors]]
        with_steps == AddStepResults(base, ws.results, ResultOrder(ws.results))
    IN  IF "eligibility_result" \in DOMAIN ws.results
        THEN IF "decision" \in DOMAIN ws.results["eligibility_result"]
             THEN LET decision_data == ws.results["eligibility_result"].decision
                  IN  Put(with_steps, "final_decision",
                          [decision |-> decision_data.prediction,
                           confidence |-> decision_data.confidence,
                           explanation |-> "decision_explanation",
                           recommendations |-> "recommendations"])
             ELSE with_steps
        ELSE with_steps

RECURSIVE SumConfidence(_, _, _)
\* the loop of _calculate_workflow_confidence: 'confidence' in None raises
SumConfidence(results, todo, acc) ==
    IF todo = <<>> THEN acc
    ELSE LET result == results[Head(todo)]
         IN  IF result = None
             THEN [acc EXCEPT !.raised = TRUE]
             ELSE IF "confidence" \in DOMAIN result
             THEN SumConfidence(results, Tail(todo),
                                [acc EXCEPT !.total = @ + result.confidence,
                                            !.count = @ + 1])
             ELSE SumConfidence(results, Tail(todo), acc)

CalculateWorkflowConfidence(ws) ==
    IF DOMAIN ws.results = {} THEN [raised |-> FALSE, value |-> 0]
    ELSE LET acc == SumConfidence(ws.results, ResultOrder(ws.results),
                                  [raised |-> FALSE, total |-> 0, count |-> 0])
         IN  IF acc.raised THEN [raised |-> TRUE, value |-> 0]
             ELSE IF acc.count = 0 THEN [raised |-> FALSE, value |-> 0]
             ELSE LET error_penalty == Min(Len(ws.errors) * 6, 18)
                      avg_confidence == acc.total \div acc.count
                      final_confidence == avg_confidence - error_penalty
                  IN  [raised |-> FALSE,
                       value |-> Max(0, Min(60, final_confidence))]

\* variant: no outer handler, the exception leaves process
OuterExceptMissing(msg) ==
    [kind |-> "raised", result |-> CreateErrorResult(msg)]

\* What the outer try/except of process does with an exception
OuterExcept(msg) ==
    [kind |-> "result", result |-> CreateErrorResult(msg)]

\* variant: a run that completed with errors is returned as a success
WorkflowResultLenient(ws, aggregated) ==
    IF ws.status = "failed"
    THEN [kind |-> "result",
          result |-> CreateErrorResult("workflow_completed_with_errors")]
    ELSE LET conf == CalculateWorkflowConfidence(ws)
         IN  IF conf.raised
             THEN OuterExcept("workflow_execution_failed")
             ELSE [kind |-> "result",
                   result |-> CreateSuccessResult(aggregated, conf.value)]

\* Lines 119-123 of process: the result handed to the caller
WorkflowResult(ws, aggregated) ==
    IF ws.status \in {"failed", "completed_with_errors"}
    THEN [kind |-> "result",
          result |-> CreateErrorResult("workflow_completed_with_errors")]
    ELSE LET conf == CalculateWorkflowConfidence(ws)
         IN  IF conf.raised
             THEN OuterExcept("workflow_execution_failed")
             ELSE [kind |-> "result",
                   result |-> CreateSuccessResult(aggregated, conf.value)]

----------------------------------------------------------------------------
(* ValidationAgent: values, text and documents *)

\* Python values of the declared and extracted fields
VStr(x) == [t |-> "str", s |-> x, n |-> 0]

VInt(k) == [t |-> "int", s |-> "", n |-> k]

VFloat(k) == [t |-> "float", s |-> "", n |-> k]

\* variant: "is not None" instead of the truth value
TruthyNotNone(x) == x # None

\* truth value of a Python value: None, '', 0 and 0.0 are false
Truthy(x) ==
    IF x = None THEN FALSE
    ELSE IF x.t = "str" THEN x.s # ""
    ELSE x.n # 0

\* str(v): an int prints without and a float with a fractional part
Str(x) ==
    IF x.t = "str" THEN x.s
    ELSE IF x.t = "int"
    THEN CASE x.n = 0 -> "0"
           [] x.n = 4800 -> "4800"
           [] x.n = 5000 -> "5000"
    ELSE CASE x.n = 0 -> "0.0"
           [] x.n = 4800 -> "4800.0"
           [] x.n = 5000 -> "5000.0"

\* str.lower()
Lower(x) ==
    CASE x = "John Doe" -> "john doe"
      [] x = "John Doe " -> "john doe "
      [] x = "Jane Roe" -> "jane roe"
      [] x = "1 Main St" -> "1 main st"
      [] x = "9 Oak Ave" -> "9 oak ave"
      [] x = "Acme" -> "acme"
      [] x = "Globex" -> "globex"
      [] x = "Bank_Statement_2023" -> "bank_statement_2023"
      [] OTHER -> x

\* str.strip()
Strip(x) ==
    CASE x = "John Doe " -> "John Doe"
      [] x = "john doe " -> "john doe"
      [] x = "Acme " -> "Acme"
      [] x = " " -> ""
      [] OTHER -> x

\* float(match.group(1).replace(',', '')); a match of commas only raises
\* ValueError
ParseFloat(raw) ==
    CASE raw = "4,800" -> [ok |-> TRUE, value |-> VFloat(4800)]
      [] raw = "5000" -> [ok |-> TRUE, value |-> VFloat(5000)]
      [] raw = "5,000.00" -> [ok |-> TRUE, value |-> VFloat(5000)]
      [] raw = "0" -> [ok |-> TRUE, value |-> VFloat(0)]
      [] OTHER -> [ok |-> FALSE, value |-> None]

\* doc_type.lower() in doc.lower()
DocTypeIn(doc_type, doc) ==
    \/ Lower(doc_type) = Lower(doc)
    \/ Lower(doc_type) = "bank_statement" /\ Lower(doc) = "bank_statement_2023"

\* ValidationAgent.__init__: the keys of self.field_priorities, in order
FieldOrder == <<"name", "date_of_birth", "income", "address", "employment">>

Fields == {FieldOrder[i] : i \in 1..Len(FieldOrder)}

\* ValidationAgent.__init__: self.field_priorities
FieldPriorities(field) ==
    CASE field = "name" -> <<"application_form", "government_id", "bank_statement">>
      [] field = "date_of_birth" -> <<"government_id", "application_form", "bank_statement">>
      [] field = "income" -> <<"bank_statement", "pay_stub", "tax_return", "application_form">>
      [] field = "address" -> <<"government_id", "utility_bill", "application_form">>
      [] field = "employment" -> <<"pay_stub", "application_form", "bank_statement">>

\* dict.get(key) on a mapping
Get(d, k) == IF k \in DOMAIN d THEN d[k] ELSE None

\* dict.get(key, default) on a mapping
GetOr(d, k, default) == IF k \in DOMAIN d THEN d[k] ELSE default

RECURSIVE FirstCandidate(_, _)
\* the loop over the patterns of one field on one text: a text is given by
\* the groups its patterns match, in pattern order; the first match is
\* returned, for income the first match that parses
FirstCandidate(field, cands) ==
    IF cands = <<>> THEN None
    ELSE IF field = "income"
    THEN LET parsed == ParseFloat(Head(cands))
         IN  IF parsed.ok THEN parsed.value
             ELSE FirstCandidate(field, Tail(cands))
    ELSE IF field = "date_of_birth" THEN VStr(Head(cands))
    ELSE VStr(Strip(Head(cands)))

RECURSIVE ExtractFromText(_, _)
\* _extract_<field>_from_document: scans extracted_data['all_text_content']
\* in order, whatever the document type
ExtractFromText(field, texts) ==
    IF texts = <<>> THEN None
    ELSE LET found == FirstCandidate(field, Head(texts)[field])
         IN  IF found # None THEN found
             ELSE ExtractFromText(field, Tail(texts))

\* variant: only the text at the position of the matching document is read
ExtractFieldFromDocumentsOwnText(field, doc_type, docs, extracted_data) ==
    LET texts == GetOr(extracted_data, "all_text_content", <<>>)
        hits == {i \in 1..Len(docs) : DocTypeIn(doc_type, docs[i])}
    IN  IF hits = {} THEN None
        ELSE LET i == CHOOSE x \in hits : \A y \in hits : x <= y
             IN  IF i <= Len(texts) THEN ExtractFromText(field, <<texts[i]>>)
                 ELSE None

RECURSIVE ExtractFieldFromDocuments(_, _, _, _)
\* _extract_field_from_documents: the first document type that contains
\* doc_type decides
ExtractFieldFromDocuments(field, doc_type, docs, extracted_data) ==
    IF docs = <<>> THEN None
    ELSE IF DocTypeIn(doc_type, Head(docs))
    THEN ExtractFromText(field, GetOr(extracted_data, "all_text_content", <<>>))
    ELSE ExtractFieldFromDocuments(field, doc_type, Tail(docs), extracted_data)

RECURSIVE CollectDocumentValues(_, _, _, _)
\* the loop of _validate_information over priority_sources
CollectDocumentValues(field, sources, extracted_data, field_values) ==
    IF sources = <<>> THEN field_values
    ELSE LET doc_value == ExtractFieldFromDocuments(
                              field, Head(sources),
                              GetOr(extracted_data, "document_types", <<>>),
                              extracted_data)
         IN  CollectDocumentValues(field, Tail(sources), extracted_data,
                 IF Truthy(doc_value)
                 THEN Put(field_values, Head(sources), doc_value)
                 ELSE field_values)

\* the observations of one field: the declared value, then the documents
FieldValues(field, application_data, extracted_data) ==
    LET app_value == Get(application_data, field)
        declared == IF Truthy(app_value)
                    THEN Put(EmptyDict, "application_form", app_value)
                    ELSE EmptyDict
    IN  CollectDocumentValues(field, FieldPriorities(field), extracted_data, declared)

\* str(v).lower().strip()
Normalized(x) == Strip(Lower(Str(x)))

\* variant: one observed value is already taken for a conflict
HasConflictSingle(field_values) ==
    Cardinality({Normalized(field_values[src]) : src \in DOMAIN field_values}) >= 1

\* variant: the values are compared as printed, not normalized
HasConflictRaw(field_values) ==
    /\ Cardinality(DOMAIN field_values) > 1
    /\ Cardinality({Str(field_values[src]) : src \in DOMAIN field_values}) > 1

\* "Check for conflicts" of _validate_information
HasConflict(field_values) ==
    /\ Cardinality(DOMAIN field_values) > 1
    /\ Cardinality({Normalized(field_values[src]) :
                       src \in {x \in DOMAIN field_values : Truthy(field_values[x])}}) > 1

\* variant: the record does not carry the priority order of the field
ConflictRecordNoPriorities(field, field_values) ==
    [field |-> field, values |-> field_values, priority_sources |-> <<>>]

ConflictRecord(field, field_values) ==
    [field |-> field, values |-> field_values,
     priority_sources |-> FieldPriorities(field)]

RECURSIVE ValidateFields(_, _, _, _)
\* the loop of _validate_information over self.field_priorities
ValidateFields(todo, application_data, extracted_data, acc) ==
    IF todo = <<>> THEN acc
    ELSE LET field == Head(todo)
             field_values == FieldValues(field, application_data, extracted_data)
         IN  ValidateFields(Tail(todo), application_data, extracted_data,
                 [conflicts |-> IF HasConflict(field_values)
                                THEN Append(acc.conflicts, ConflictRecord(field, field_values))
                                ELSE acc.conflicts,
                  validated_data |-> Put(acc.validated_data, field, field_values)])

\* _validate_information
ValidateInformation(application_data, extracted_data) ==
    LET acc == ValidateFields(FieldOrder, application_data, extracted_data,
                              [conflicts |-> <<>>, validated_data |-> EmptyDict])
    IN  [is_valid |-> Len(acc.conflicts) = 0,
         conflicts |-> acc.conflicts,
         resolved_data |-> acc.validated_data,
         confidence_score |-> 0]

RECURSIVE FirstPrioritySource(_, _)
\* first loop of _resolve_field_conflict
FirstPrioritySource(values, sources) ==
    IF sources = <<>> THEN None
    ELSE IF Head(sources) \in DOMAIN values /\ Truthy(values[Head(sources)])
    THEN values[Head(sources)]
    ELSE FirstPrioritySource(values, Tail(sources))

\* insertion order of the values dict of a field: application_form first when
\* declared, then the document sources in priority order
ValuesOrder(values, sources) ==
    (IF "application_form" \in DOMAIN values THEN <<"application_form">> ELSE <<>>)
    \o SelectSeq(sources, LAMBDA x : x \in DOMAIN values /\ x # "application_form")

RECURSIVE FirstAvailable(_, _)
\* second loop of _resolve_field_conflict
FirstAvailable(values, order) ==
    IF order = <<>> THEN None
    ELSE IF Truthy(values[Head(order)]) THEN values[Head(order)]
    ELSE FirstAvailable(values, Tail(order))

\* variant: the priority order is not consulted
ResolveFieldConflictUnordered(field, values, priority_sources) ==
    FirstAvailable(values, ValuesOrder(values, priority_sources))

\* _resolve_field_conflict
ResolveFieldConflict(field, values, priority_sources) ==
    LET by_priority == FirstPrioritySource(values, priority_sources)
    IN  IF by_priority # None THEN by_priority
        ELSE FirstAvailable(values, ValuesOrder(values, priority_sources))

RECURSIVE ResolveConflicts(_, _)
\* _resolve_conflicts
ResolveConflicts(conflicts, resolved_data) ==
    IF conflicts = <<>> THEN resolved_data
    ELSE LET c == Head(conflicts)
         IN  ResolveConflicts(Tail(conflicts),
                 Put(resolved_data, c.field,
                     ResolveFieldConflict(c.field, c.values, c.priority_sources)))

\* variant: assignment instead of update
UpdateReplace(d, e) == e

\* dict.update
Update(d, e) == [k \in DOMAIN d \cup DOMAIN e |-> IF k \in DOMAIN e THEN e[k] ELSE d[k]]

\* variant: no bonus for resolved data
CalculateOverallConfidenceNoBonus(validation_result) ==
    IF validation_result.conflicts = <<>> THEN 60
    ELSE Max(0, Min(60, 42 - Min(Len(validation_result.conflicts) * 6, 18)))

\* variant: the number of conflicts does not count
CalculateOverallConfidenceFlat(validation_result) ==
    IF validation_result.conflicts = <<>> THEN 60
    ELSE Max(0, Min(60, 42 + (IF DOMAIN validation_result.resolved_data # {} THEN 6 ELSE 0)))

\* variant: the conflict penalty is not capped
CalculateOverallConfidenceUncapped(validation_result) ==
    IF validation_result.conflicts = <<>> THEN 60
    ELSE Max(0, Min(60, 42 - Len(validation_result.conflicts) * 6
                        + (IF DOMAIN validation_result.resolved_data # {} THEN 6 ELSE 0)))

\* _calculate_overall_confidence (42 = 0.7, 6 = 0.1, 18 = 0.3)
CalculateOverallConfidence(validation_result) ==
    IF validation_result.conflicts = <<>> THEN 60
    ELSE LET base_confidence == 42
             conflict_penalty == Min(Len(validation_result.conflicts) * 6, 18)
             resolution_bonus == IF DOMAIN validation_result.resolved_data # {}
                                 THEN 6 ELSE 0
             final_confidence == base_confidence - conflict_penalty + resolution_bonus
         IN  Max(0, Min(60, final_confidence))

\* the payload ValidationAgent.process returns on success
ValidationPayload(validation_result) ==
    [validation_result |-> validation_result,
     is_valid |-> validation_result.is_valid,
     confidence |-> validation_result.confidence_score]

\* ValidationAgent.process from _validate_information to the confidence
Reconcile(application_data, extracted_data) ==
    LET validated == ValidateInformation(application_data, extracted_data)
        resolved == IF validated.conflicts # <<>>
                    THEN [validated EXCEPT !.resolved_data =
                             Update(@, ResolveConflicts(validated.conflicts, EmptyDict))]
                    ELSE validated
    IN  [resolved EXCEPT !.confidence_score = CalculateOverallConfidence(resolved)]

\* "not application_data or not extracted_data" on the input of
\* ValidationAgent.process: a key that is absent, None or an empty dict
MissingApplicationOrExtracted(step_input) ==
    LET application_data == GetOr(step_input, "application_data", EmptyDict)
        extracted_data == GetOr(step_input, "extracted_data", EmptyDict)
    IN  \/ application_data = None \/ DOMAIN application_data = {}
        \/ extracted_data = None \/ DOMAIN extracted_data = {}

\* ValidationAgent.process turning its input down
ValidationRejection ==
    [raised |-> FALSE,
     result |-> CreateErrorResult("missing_application_or_extracted_data")]

\* a declared name and income, and a bank statement that gives another income
SampleApplicationData ==
    [name |-> VStr("john doe "), income |-> VInt(5000)]

SampleExtractedData ==
    [document_types |-> <<"Bank_Statement_2023">>,
     all_text_content |-> <<[name |-> <<"John Doe ">>, date_of_birth |-> <<>>,
                             income |-> <<"4,800">>, address |-> <<>>,
                             employment |-> <<>>]>>]

\* ValidationAgent.process succeeding: the payload it builds
ValidationOutcomes ==
    LET validation_result == Reconcile(SampleApplicationData, SampleExtractedData)
    IN  {[raised |-> FALSE,
          result |-> CreateSuccessResult(ValidationPayload(validation_result),
                                         validation_result.confidence_score)]}

\* EligibilityAgent.process succeeding: the payload it builds
EligibilityOutcomes ==
    {[raised |-> FALSE,
      result |-> CreateSuccessResult(
                    [decision |-> [prediction |-> "approved", confidence |-> 60],
                     model_version |-> "model_version",
                     features_used |-> "feature_names"], 60)]}

\* variant: the validation stage does not look at its input
StageOutcomesUnchecked(step, step_input) ==
    AgentOutcomes
    \cup (IF step = "validation" THEN ValidationOutcomes ELSE {})
    \cup (IF step = "eligibility" THEN EligibilityOutcomes ELSE {})

\* What agent.process of a stage can do with the input it is given: the
\* validation stage turns down an input without application or extracted
\* data; otherwise any outcome of an agent, or the stage's own payload
StageOutcomes(step, step_input) ==
    IF step = "validation" /\ MissingApplicationOrExtracted(step_input)
    THEN {ValidationRejection}
    ELSE AgentOutcomes
         \cup (IF step = "validation" THEN ValidationOutcomes ELSE {})
         \cup (IF step = "eligibility" THEN EligibilityOutcomes ELSE {})

----------------------------------------------------------------------------
(* MasterAgent.process *)

InitRuns ==
    /\ pc = [r \in Runs |-> "idle"]
    /\ arg = [r \in Runs |-> "none"]
    /\ input_data = [r \in Runs |-> EmptyDict]
    /\ step_idx = [r \in Runs |-> 0]
    /\ workflow = [c \in Runs |-> NoContext]
    /\ inflight = [r \in Runs |-> {}]
    /\ invoked = [r \in Runs |-> <<>>]
    /\ outcomes = [r \in Runs |-> <<>>]
    /\ final_result = [r \in Runs |-> EmptyDict]
    /\ ret = [r \in Runs |-> NoReturn]
    /\ uuid_ctr = 0

\* ValidationAgent.process is not called on its own
ValidationOff ==
    /\ v_pc = "off"
    /\ v_in = EmptyDict
    /\ v_result = None
    /\ v_ret = NoReturn

\* one call of process
Init == calls = {"r1"} /\ InitRuns /\ ValidationOff

\* two calls of process on the same MasterAgent (the module-level
\* master_agent of src/app/api/main.py serving two requests)
InitTwo == calls = Runs /\ InitRuns /\ ValidationOff

\* process is called: input check, then the workflow_state is set up
Start(r) ==
    /\ pc[r] = "idle"
    /\ \E a \in ArgKinds :
        /\ arg' = [arg EXCEPT ![r] = a]
        /\ IF ~ValidateInput(a)
           THEN /\ ret' = [ret EXCEPT ![r] =
                    [kind |-> "result",
                     result |-> CreateErrorResult("invalid_input_data")]]
                /\ pc' = [pc EXCEPT ![r] = "done"]
                /\ UNCHANGED <<input_data, step_idx, workflow, uuid_ctr>>
           ELSE /\ uuid_ctr' = uuid_ctr + 1
                /\ workflow' = [workflow EXCEPT ![OwnContext(r)] =
                                   NewWorkflowState(uuid_ctr + 1)]
                /\ input_data' = [input_data EXCEPT ![r] = InitialInput]
                /\ step_idx' = [step_idx EXCEPT ![r] = 1]
                /\ pc' = [pc EXCEPT ![r] = "loop"]
                /\ UNCHANGED ret
    /\ UNCHANGED <<calls, inflight, invoked, outcomes, final_result>>

\* Top of the loop body up to the await of agent.process
BeginStep(r) ==
    /\ pc[r] = "loop"
    /\ LET step == WorkflowSteps[step_idx[r]]
           c == OwnContext(r)
           ws == [workflow[c] EXCEPT !.current_step = step_idx[r],
                                     !.status = ProcessingStatus(step)]
       IN  /\ workflow' = [workflow EXCEPT ![c] = ws]
           /\ IF step \in Agents
              THEN /\ inflight' = [inflight EXCEPT ![r] = @ \cup {step}]
                   /\ invoked' = [invoked EXCEPT ![r] =
                          Append(@, [step |-> step,
                                     input |-> PrepareStepInput(step, input_data[r], ws)])]
              ELSE UNCHANGED <<inflight, invoked>>
    /\ pc' = [pc EXCEPT ![r] = "await"]
    /\ UNCHANGED <<calls, arg, input_data, step_idx, outcomes, final_result, ret, uuid_ctr>>

\* agent.process comes back (or raises) and the rest of the loop body runs
StepReturn(r) ==
    /\ pc[r] = "await"
    /\ \E o \in StageOutcomes(WorkflowSteps[step_idx[r]],
                              invoked[r][Len(invoked[r])].input) :
        LET step == WorkflowSteps[step_idx[r]]
            c == OwnContext(r)
            step_result == ExecuteAgentStep(step, o)
            body == StepBody(workflow[c], input_data[r], step, step_result)
        IN  /\ outcomes' = [outcomes EXCEPT ![r] = Append(@, o)]
            /\ inflight' = [inflight EXCEPT ![r] = @ \ {step}]
            /\ workflow' = [workflow EXCEPT ![c] = body.ws]
            /\ input_data' = [input_data EXCEPT ![r] = body.inp]
            /\ IF body.brk
               THEN /\ pc' = [pc EXCEPT ![r] = "finalize"]
                    /\ UNCHANGED step_idx
               ELSE /\ step_idx' = [step_idx EXCEPT ![r] = @ + 1]
                    /\ pc' = [pc EXCEPT ![r] =
                           IF step_idx[r] + 1 > Len(WorkflowSteps)
                           THEN "finalize" ELSE "loop"]
    /\ UNCHANGED <<calls, arg, invoked, final_result, ret, uuid_ctr>>

\* "Finalize workflow" and "Aggregate results"
Finalize(r) ==
    /\ pc[r] = "finalize"
    /\ LET c == OwnContext(r)
           ws1 == [workflow[c] EXCEPT !.end_time = TRUE]
           ws2 == [ws1 EXCEPT !.status = DetermineFinalStatus(ws1)]
       IN  /\ workflow' = [workflow EXCEPT ![c] = ws2]
           /\ final_result' = [final_result EXCEPT ![r] = AggregateWorkflowResults(ws2)]
    /\ pc' = [pc EXCEPT ![r] = "return"]
    /\ UNCHANGED <<calls, arg, input_data, step_idx, inflight, invoked, outcomes, ret, uuid_ctr>>

\* The result is handed to the caller
Return(r) ==
    /\ pc[r] = "return"
    /\ ret' = [ret EXCEPT ![r] = WorkflowResult(workflow[OwnContext(r)], final_result[r])]
    /\ pc' = [pc EXCEPT ![r] = "done"]
    /\ UNCHANGED <<calls, arg, input_data, step_idx, workflow, inflight, invoked,
                   outcomes, final_result, uuid_ctr>>

Next ==
    \E r \in calls :
        /\ \/ Start(r)
           \/ BeginStep(r)
           \/ StepReturn(r)
           \/ Finalize(r)
           \/ Return(r)
        /\ UNCHANGED vvars

Spec == Init /\ [][Next]_vars

SpecTwo == InitTwo /\ [][Next]_vars

\* the steps of process between two awaits: code of the orchestrator itself,
\* which the event loop runs to the next await
OwnSteps(r) ==
    /\ r \in calls
    /\ (Start(r) \/ BeginStep(r) \/ Finalize(r) \/ Return(r))
    /\ UNCHANGED vvars

\* one call of process whose own code keeps running; whether an awaited
\* agent.process comes back is left open
SpecLive == Init /\ [][Next]_vars /\ \A r \in Runs : WF_vars(OwnSteps(r))

----------------------------------------------------------------------------
(* Vocabulary of the properties *)

Ctx(r) == workflow[OwnContext(r)]

Validated(r) == ValidateInput(arg[r])

LoopEnded(r) == pc[r] \in {"finalize", "return", "done"}

Finalized(r) == Validated(r) /\ pc[r] \in {"return", "done"}

Returned(r) == Validated(r) /\ pc[r] = "done"

StageFailed(o) == o.raised \/ ~o.result.success

InvokedSteps(r) == [i \in 1..Len(invoked[r]) |-> invoked[r][i].step]

ExtractionFailed(r) == Len(outcomes[r]) >= 1 /\ StageFailed(outcomes[r][1])

LaterStageFailed(r) ==
    /\ Len(outcomes[r]) >= 2
    /\ ~StageFailed(outcomes[r][1])
    /\ \E i \in 2..Len(outcomes[r]) : StageFailed(outcomes[r][i])

TerminalStatuses ==
    {"failed", "completed_with_errors", "completed_successfully", "incomplete"}

----------------------------------------------------------------------------
\* C1: when the extraction stage fails (success=false or an exception), the
\* run ends with status 'failed', validation and eligibility are never
\* invoked, and stage_results has no entry for either of them.
C1_ExtractionFailureAborts ==
    \A r \in calls :
        ExtractionFailed(r) =>
            /\ LoopEnded(r)
            /\ InvokedSteps(r) = <<"extraction">>
            /\ DOMAIN Ctx(r).results \cap {"validation", "eligibility"} = {}
            /\ Ctx(r).status = "failed"

C1_Witness ==
    \E r \in calls :
        /\ Returned(r)
        /\ ExtractionFailed(r)
        /\ outcomes[r][1].raised
        /\ Ctx(r).status = "failed"

\* C2: when extraction succeeds and validation or eligibility fails, every
\* stage after the failed one is still invoked and the terminal status is
\* 'completed_with_errors'.
C2_NonCriticalFailureContinues ==
    \A r \in calls :
        LaterStageFailed(r) =>
            /\ LoopEnded(r) => InvokedSteps(r) = <<"extraction", "validation", "eligibility">>
            /\ ~LoopEnded(r) => pc[r] \in {"loop", "await"}
            /\ Finalized(r) => Ctx(r).status = "completed_with_errors"

C2_Witness ==
    \E r \in calls :
        /\ Returned(r)
        /\ ~StageFailed(outcomes[r][1])
        /\ StageFailed(outcomes[r][2])
        /\ ~StageFailed(outcomes[r][3])
        /\ Ctx(r).status = "completed_with_errors"

\* C3: process returns success=true if and only if the terminal status is
\* 'completed_successfully'; every other terminal status is returned as a
\* failure.
C3_SuccessIffCompletedSuccessfully ==
    \A r \in calls :
        Returned(r) =>
            (ret[r].result.success <=> Ctx(r).status = "completed_successfully")

\* C4: a run that ends 'failed' or 'completed_with_errors' still returns the
\* partial results: the payload of the returned result holds the recorded
\* errors and the output of every stage that completed.
C4_PartialResultsReturned ==
    \A r \in calls :
        (Returned(r) /\ Ctx(r).status \in {"failed", "completed_with_errors"}) =>
            /\ ret[r].result.data # None
            /\ "errors" \in DOMAIN ret[r].result.data
            /\ ret[r].result.data["errors"].content = Ctx(r).errors
            /\ \A s \in DOMAIN Ctx(r).results :
                  /\ ResultKey(s) \in DOMAIN ret[r].result.data
                  /\ ret[r].result.data[ResultKey(s)] = Ctx(r).results[s]

\* C5: the terminal status is 'failed' when a critical-stage failure aborted
\* the run, else 'completed_with_errors' when an error was recorded, else
\* 'completed_successfully' when there are as many stage results as stages,
\* else 'incomplete'; so 'completed_successfully' holds exactly when all
\* three stages produced a result and no error was recorded.
C5_TerminalStatusOrder ==
    \A r \in calls :
        Finalized(r) =>
            /\ Ctx(r).status =
                  IF ExtractionFailed(r) THEN "failed"
                  ELSE IF Len(Ctx(r).errors) > 0 THEN "completed_with_errors"
                  ELSE IF Cardinality(DOMAIN Ctx(r).results) = 3
                  THEN "completed_successfully"
                  ELSE "incomplete"
            /\ Ctx(r).status = "completed_successfully" <=>
                  /\ DOMAIN Ctx(r).results = {"extraction", "validation", "eligibility"}
                  /\ Ctx(r).errors = <<>>

C5_Witness ==
    \E r \in calls :
        /\ Finalized(r)
        /\ Ctx(r).status = "completed_successfully"
        /\ Ctx(r).errors = <<>>

RECURSIVE SumReported(_, _)
\* sum of the confidences the completed stages reported with their results
SumReported(r, i) ==
    IF i = 0 THEN 0
    ELSE SumReported(r, i - 1)
         + (IF invoked[r][i].step \in DOMAIN Ctx(r).results
            THEN outcomes[r][i].result.confidence_score ELSE 0)

\* C6: the pipeline confidence is the mean of the confidences reported by
\* every completed stage, minus min(0.1 x errors, 0.3), clamped to [0,1];
\* it is 0 when no stage completed.
C6_ConfidenceIsMeanOfStageConfidences ==
    \A r \in calls :
        (Returned(r) /\ ret[r].result.success) =>
            LET n == Cardinality(DOMAIN Ctx(r).results)
                penalty == Min(6 * Len(Ctx(r).errors), 18)
            IN  ret[r].result.confidence_score =
                    IF n = 0 THEN 0
                    ELSE Max(0, Min(60, (SumReported(r, Len(outcomes[r])) \div n) - penalty))

\* C7: no failure leaves process as an exception: whatever the argument and
\* whatever each stage does (success, success=false, exception), process
\* hands back a result value with a success flag.
C7_NoExceptionEscapes ==
    \A r \in calls :
        /\ pc[r] = "done" =>
              /\ ret[r].kind = "result"
              /\ ret[r].result.success \in BOOLEAN
        /\ pc[r] # "done" => ret[r] = NoReturn

C7_Witness ==
    \E r \in calls :
        /\ pc[r] = "done"
        /\ \E i \in 1..Len(outcomes[r]) : outcomes[r][i].raised
        /\ ret[r].kind = "result"
        /\ ~ret[r].result.success

C7_WitnessOuterHandler ==
    \E r \in calls :
        /\ pc[r] = "done"
        /\ ret[r].kind = "result"
        /\ ret[r].result.error = "workflow_execution_failed"

\* C8: in a run that passed the input check, once the stage loop has ended
\* the context is finalized (end_time set, status one of the four terminal
\* statuses), and the loop ends before the last stage only because the
\* extraction stage failed.
C8_ContextAlwaysFinalized ==
    \A r \in calls :
        /\ Finalized(r) =>
              /\ Ctx(r).end_time
              /\ Ctx(r).status \in TerminalStatuses
        /\ (Validated(r) /\ pc[r] \in {"loop", "await"}) =>
              /\ ~Ctx(r).end_time
              /\ Ctx(r).status \notin TerminalStatuses \ {"failed"}
        /\ (Validated(r) /\ LoopEnded(r) /\ Len(invoked[r]) < 3) =>
              /\ ExtractionFailed(r)
              /\ Len(outcomes[r]) = 1

C8_Witness ==
    \E r \in calls :
        /\ Returned(r)
        /\ Len(invoked[r]) = 3
        /\ StageFailed(outcomes[r][2])
        /\ StageFailed(outcomes[r][3])
        /\ Ctx(r).end_time

\* C9: within one run the stages are invoked in the order extraction,
\* validation, eligibility, each at most once, a stage only after the
\* previous invocation has returned, and never two at the same time.
C9_StagesStrictlySequential ==
    \A r \in calls :
        /\ Len(invoked[r]) <= 3
        /\ InvokedSteps(r) = SubSeq(<<"extraction", "validation", "eligibility">>,
                                    1, Len(invoked[r]))
        /\ Cardinality(inflight[r]) <= 1
        /\ Len(invoked[r]) - Len(outcomes[r]) = Cardinality(inflight[r])
        /\ inflight[r] # {} => inflight[r] = {invoked[r][Len(invoked[r])].step}

C9_Witness ==
    \E r \in calls :
        /\ inflight[r] = {"eligibility"}
        /\ Len(invoked[r]) = 3
        /\ Len(outcomes[r]) = 2

RECURSIVE SoloLoop(_, _, _, _)
\* the workflow_state a run alone ends its stage loop with, given what its
\* stages produce
SoloLoop(ws, inp, i, outs) ==
    IF i > Len(outs) \/ i > 3 THEN ws
    ELSE LET step == <<"extraction", "validation", "eligibility">>[i]
             started == [ws EXCEPT !.current_step = i,
                                   !.status = ProcessingStatus(step)]
             body == StepBody(started, inp, step, ExecuteAgentStep(step, outs[i]))
         IN  IF body.brk THEN body.ws
             ELSE SoloLoop(body.ws, body.inp, i + 1, outs)

SoloStatus(ws) ==
    IF \E i \in 1..Len(ws.errors) : ws.errors[i].step = "extraction" THEN "failed"
    ELSE IF Len(ws.errors) > 0 THEN "completed_with_errors"
    ELSE "completed_successfully"

\* C10: two runs of process on one MasterAgent, interleaved at stage
\* boundaries, do not interfere: each has its own workflow context
\* (workflow_id, stage_results, errors, status) and ends with the status,
\* stage_results and errors it would have had alone.
C10_RunsDoNotInterfere ==
    \A r \in calls :
        Finalized(r) =>
            LET solo == SoloLoop(NewWorkflowState(0), InitialInput, 1, outcomes[r])
                mine == final_result[r]
            IN  /\ mine["status"].content = SoloStatus(solo)
                /\ mine["errors"].content = solo.errors
                /\ mine["completed_steps"].content = Cardinality(DOMAIN solo.results)
                /\ \A s \in DOMAIN solo.results :
                      /\ ResultKey(s) \in DOMAIN mine
                      /\ mine[ResultKey(s)] = solo.results[s]
                /\ \A q \in calls \ {r} :
                      Finalized(q) =>
                          mine["workflow_id"] # final_result[q]["workflow_id"]

\* r2 started first and is still awaiting its last stage while r1, started
\* later, has already returned with a different fate
C10_Witness ==
    /\ calls = Runs
    /\ Returned("r1")
    /\ Validated("r2")
    /\ workflow["r2"].workflow_id = 1
    /\ workflow["r1"].workflow_id = 2
    /\ pc["r2"] = "await"
    /\ Len(invoked["r2"]) = 3
    /\ workflow["r2"].errors = <<>>
    /\ workflow["r1"].status = "failed"

----------------------------------------------------------------------------
(* ValidationAgent.process on its own *)

Absent == [absent |-> TRUE]

\* what an application can declare for a field (Absent: no such key)
DeclaredChoices(field) ==
    CASE field = "name" -> {Absent, VStr(""), VStr("john doe "), VStr("Jane Roe")}
      [] field = "date_of_birth" -> {Absent, VStr("01/02/1990"), VStr("03/04/1985")}
      [] field = "income" -> {Absent, VInt(0), VInt(5000), VFloat(5000)}
      [] field = "address" -> {Absent, VStr("1 Main St"), VStr("9 Oak Ave")}
      [] field = "employment" -> {Absent, VStr("Acme"), VStr("Globex")}

ApplicationDict(choice) ==
    [f \in {x \in Fields : choice[x] # Absent} |-> choice[f]]

ApplicationDicts ==
    {ApplicationDict(choice) :
        choice \in {c \in [Fields -> UNION {DeclaredChoices(f) : f \in Fields}] :
                       \A f \in Fields : c[f] \in DeclaredChoices(f)}}

\* texts of documents, each given by the groups its patterns match
TextFull ==
    [name |-> <<"John Doe ">>, date_of_birth |-> <<"01/02/1990">>,
     income |-> <<"5,000.00">>, address |-> <<"1 Main St">>,
     employment |-> <<"Acme ">>]

TextIncomeOnly ==
    [name |-> <<>>, date_of_birth |-> <<>>, income |-> <<",", "4,800">>,
     address |-> <<>>, employment |-> <<>>]

TextBlankName ==
    [name |-> <<" ">>, date_of_birth |-> <<>>, income |-> <<>>,
     address |-> <<>>, employment |-> <<>>]

TextLists ==
    {<<>>, <<TextFull>>, <<TextIncomeOnly, TextFull>>, <<TextBlankName, TextFull>>}

DocumentTypeLists ==
    {<<>>, <<"pdf">>, <<"Bank_Statement_2023">>, <<"government_id", "pay_stub">>,
     <<"application_form", "utility_bill">>, <<"bank_statement", "pay_stub">>}

\* the consolidated dict of ExtractionAgent._consolidate_data, or an empty one
ExtractedDicts ==
    {[document_types |-> d, all_text_content |-> t] :
        d \in DocumentTypeLists, t \in TextLists}
    \cup {EmptyDict}

ValidationInputs ==
    {[application_data |-> a, extracted_data |-> e] :
        a \in ApplicationDicts, e \in ExtractedDicts}
    \cup {[extracted_data |-> e] : e \in ExtractedDicts}
    \cup {[application_data |-> a] : a \in ApplicationDicts}

\* one call of ValidationAgent.process on any of the inputs
InitValidation ==
    /\ calls = {}
    /\ InitRuns
    /\ v_pc = "start"
    /\ v_in \in ValidationInputs
    /\ v_result = None
    /\ v_ret = NoReturn

\* the input check, then _validate_information
Validate ==
    /\ v_pc = "start"
    /\ LET application_data == GetOr(v_in, "application_data", EmptyDict)
           extracted_data == GetOr(v_in, "extracted_data", EmptyDict)
       IN  IF MissingApplicationOrExtracted(v_in)
           THEN /\ v_ret' = [kind |-> "result", result |-> ValidationRejection.result]
                /\ v_pc' = "done"
                /\ UNCHANGED v_result
           ELSE /\ v_result' = ValidateInformation(application_data, extracted_data)
                /\ v_pc' = "resolve"
                /\ UNCHANGED v_ret
    /\ UNCHANGED <<v_in, mvars>>

\* "Resolve conflicts if any"
Resolve ==
    /\ v_pc = "resolve"
    /\ v_result' =
          IF v_result.conflicts # <<>>
          THEN [v_result EXCEPT !.resolved_data =
                   Update(@, ResolveConflicts(v_result.conflicts, EmptyDict))]
          ELSE v_result
    /\ v_pc' = "score"
    /\ UNCHANGED <<v_in, v_ret, mvars>>

\* "Calculate overall confidence" and the success result
Score ==
    /\ v_pc = "score"
    /\ LET overall_confidence == CalculateOverallConfidence(v_result)
           scored == [v_result EXCEPT !.confidence_score = overall_confidence]
       IN  /\ v_result' = scored
           /\ v_ret' = [kind |-> "result",
                        result |-> CreateSuccessResult(ValidationPayload(scored),
                                                       overall_confidence)]
    /\ v_pc' = "done"
    /\ UNCHANGED <<v_in, mvars>>

NextValidation == Validate \/ Resolve \/ Score

SpecValidation == InitValidation /\ [][NextValidation]_vars

----------------------------------------------------------------------------
(* Vocabulary of the reconciliation properties *)

\* ValidationAgent.process returned a reconciliation result
Reconciled == v_pc = "done" /\ v_ret.result.success

Reconciliation == v_ret.result.data.validation_result

\* the observations of a field, source -> value, for the input at hand
Observations(f) == FieldValues(f, v_in.application_data, v_in.extracted_data)

NormalizedValues(obs) == {Normalized(obs[src]) : src \in DOMAIN obs}

ConflictFields(vr) == {vr.conflicts[i].field : i \in 1..Len(vr.conflicts)}

RecordsFor(vr, f) == {i \in 1..Len(vr.conflicts) : vr.conflicts[i].field = f}

\* the value of the first source of the priority order that has a value
IsFirstByPriority(value, obs, prio) ==
    \E k \in 1..Len(prio) :
        /\ prio[k] \in DOMAIN obs
        /\ value = obs[prio[k]]
        /\ \A j \in 1..(k - 1) : prio[j] \notin DOMAIN obs

\* C11: for each of the five fields the engine produces a ConflictRecord
\* exactly when the observations of the field have more than one distinct
\* normalized (case-folded, trimmed) value.
C11_ConflictIffDistinctNormalized ==
    v_pc = "resolve" =>
        \A f \in Fields :
            /\ (f \in ConflictFields(v_result)
                    <=> Cardinality(NormalizedValues(v_result.resolved_data[f])) > 1)
            /\ \A i \in RecordsFor(v_result, f) :
                    v_result.conflicts[i].values = v_result.resolved_data[f]

\* name agrees up to case and blanks (no record), date of birth differs
C11_Witness ==
    /\ v_pc = "resolve"
    /\ Cardinality(DOMAIN v_result.resolved_data["name"]) = 2
    /\ "name" \notin ConflictFields(v_result)
    /\ "date_of_birth" \in ConflictFields(v_result)

\* C12: a field with two or more observations whose normalized values
\* differ gets exactly one ConflictRecord, and resolved_data[field] is the
\* value of the first source of the field's priority order that has one.
C12_ResolvedByPriority ==
    Reconciled =>
        \A f \in Fields :
            LET obs == Observations(f)
            IN  (Cardinality(DOMAIN obs) >= 2 /\ Cardinality(NormalizedValues(obs)) > 1) =>
                    /\ Cardinality(RecordsFor(Reconciliation, f)) = 1
                    /\ IsFirstByPriority(Reconciliation.resolved_data[f], obs,
                                         FieldPriorities(f))

\* declared income 5000, bank statement says 4,800: the statement wins;
\* declared name wins over the name on the government id
C12_Witness ==
    /\ Reconciled
    /\ Observations("income") =
          [application_form |-> VInt(5000), bank_statement |-> VFloat(4800)]
    /\ Reconciliation.resolved_data["income"] = VFloat(4800)

C12_WitnessName ==
    /\ Reconciled
    /\ Observations("name") =
          [application_form |-> VStr("Jane Roe"), government_id |-> VStr("John Doe")]
    /\ Reconciliation.resolved_data["name"] = VStr("Jane Roe")

\* C13: a field with exactly one non-empty observation gets no
\* ConflictRecord and resolved_data[field] equals that observation's value.
C13_SingleObservationIsResolvedValue ==
    Reconciled =>
        \A f \in Fields :
            LET obs == Observations(f)
            IN  Cardinality(DOMAIN obs) = 1 =>
                    /\ f \notin ConflictFields(Reconciliation)
                    /\ \A src \in DOMAIN obs :
                          Reconciliation.resolved_data[f] = obs[src]

\* C13 as the code has it: a field with exactly one non-empty observation
\* gets no ConflictRecord and resolved_data[field] is the one-entry mapping
\* from the observation's source to its value.
C13_SingleObservationKeptAsMapping ==
    Reconciled =>
        \A f \in Fields :
            LET obs == Observations(f)
            IN  Cardinality(DOMAIN obs) = 1 =>
                    /\ f \notin ConflictFields(Reconciliation)
                    /\ DOMAIN Reconciliation.resolved_data[f] = DOMAIN obs
                    /\ \A src \in DOMAIN obs :
                          /\ Truthy(obs[src])
                          /\ Reconciliation.resolved_data[f][src] = obs[src]

\* only the application declares an address; another field has a conflict
C13_Witness ==
    /\ Reconciled
    /\ Observations("address") = [application_form |-> VStr("9 Oak Ave")]
    /\ Reconciliation.resolved_data["address"] = [application_form |-> VStr("9 Oak Ave")]
    /\ Reconciliation.conflicts # <<>>

\* C14: the reconciliation confidence is 1.0 without conflicts, else 0.7
\* minus min(0.1 x conflicts, 0.3), plus 0.1 when resolved_data is not
\* empty after resolution, and always within [0,1].
C14_ConfidenceFormula ==
    Reconciled =>
        LET n == Len(Reconciliation.conflicts)
            capped == IF n >= 3 THEN 18 ELSE 6 * n
            bonus == IF DOMAIN Reconciliation.resolved_data = {} THEN 0 ELSE 6
            score == Reconciliation.confidence_score
        IN  /\ n = 0 => score = 60
            /\ n > 0 => score = 42 - capped + bonus
            /\ score >= 0 /\ score <= 60
            /\ v_ret.result.confidence_score = score
            /\ v_ret.result.data.confidence = score

\* all five fields in conflict
C14_Witness ==
    /\ Reconciled
    /\ Len(Reconciliation.conflicts) = 5
    /\ Reconciliation.confidence_score = 30

\* C20: after a successful ValidationAgent.process, resolved_data has an
\* entry for each of the five fields: the single resolved value for a field
\* with a conflict, the unchanged source -> value map of its observations
\* for a field without one.
C20_ResolvedDataCoversAllFields ==
    Reconciled =>
        /\ DOMAIN Reconciliation.resolved_data = Fields
        /\ \A f \in Fields :
              IF f \in ConflictFields(Reconciliation)
              THEN \E src \in DOMAIN Observations(f) :
                      Reconciliation.resolved_data[f] = Observations(f)[src]
              ELSE Reconciliation.resolved_data[f] = Observations(f)

\* one field resolved, one kept as a map of two agreeing sources, one empty
C20_Witness ==
    /\ Reconciled
    /\ "income" \in ConflictFields(Reconciliation)
    /\ Cardinality(DOMAIN Observations("name")) = 2
    /\ "name" \notin ConflictFields(Reconciliation)
    /\ Reconciliation.resolved_data["address"] = EmptyDict

\* two observed values agree: the same text up to case and surrounding
\* blanks, or the same amount
Agree(a, b) ==
    IF a.t = "str" /\ b.t = "str" THEN Normalized(a) = Normalized(b)
    ELSE a.t # "str" /\ b.t # "str" /\ a.n = b.n

\* every field is declared, and every document value agrees with it
AllSourcesAgree ==
    \A f \in Fields :
        LET obs == Observations(f)
        IN  /\ "application_form" \in DOMAIN obs
            /\ \A src \in DOMAIN obs : Agree(obs["application_form"], obs[src])

\* C16: when for all five fields the declared value and every document
\* value agree (an income declared as a number and extracted from text as
\* the same amount included), the reconciliation has is_valid = true,
\* confidence_score = 1.0 and no conflicts.
C16_AgreementIsValid ==
    (Reconciled /\ AllSourcesAgree) =>
        /\ Reconciliation.is_valid
        /\ Reconciliation.confidence_score = 60
        /\ Reconciliation.conflicts = <<>>

(***************************************************************************)
(* _calculate_overall_confidence on its own                                *)
(***************************************************************************)

\* a record of two differing observations for the field
SampleConflict(field) ==
    ConflictRecord(field, [application_form |-> VStr("Jane Roe"),
                           bank_statement |-> VStr("John Doe")])

\* the conflict lists: one record per field of a set, in field order
ConflictLists ==
    {LET sel == SelectSeq(FieldOrder, LAMBDA f : f \in S)
     IN  [i \in 1..Len(sel) |-> SampleConflict(sel[i])] : S \in SUBSET Fields}

\* resolution left nothing, or something
ResolvedChoices == {EmptyDict, [name |-> VStr("John Doe")]}

ConfidenceInputs ==
    {[is_valid |-> c = <<>>, conflicts |-> c, resolved_data |-> d,
      confidence_score |-> 0] : c \in ConflictLists, d \in ResolvedChoices}

InitConfidence ==
    /\ calls = {}
    /\ InitRuns
    /\ v_pc = "score"
    /\ v_in = EmptyDict
    /\ v_result \in ConfidenceInputs
    /\ v_ret = NoReturn

SpecConfidence == InitConfidence /\ [][Score]_vars

\* the confidence of the result at hand had it only its first m conflicts
ConfidenceAt(m) ==
    CalculateOverallConfidence([v_result EXCEPT !.conflicts = SubSeq(@, 1, m)])

Scored == v_pc = "done" /\ v_ret.result.success

\* C15: for fixed resolution success the confidence strictly decreases as
\* the conflict count grows: confidence(n) < confidence(m) for all m < n
\* in 0..5.
C15_StrictlyDecreasing ==
    Scored =>
        \A m \in 0..(Len(v_result.conflicts) - 1) :
            v_result.confidence_score < ConfidenceAt(m)

\* C15 as the code has it: the confidence never grows with the conflict
\* count, strictly decreases from m to n > m while m < 3, and is the same for
\* all counts from 3 on, where the penalty is capped.
C15_DecreasingUpToCap ==
    Scored =>
        \A m \in 0..(Len(v_result.conflicts) - 1) :
            /\ v_result.confidence_score <= ConfidenceAt(m)
            /\ m < 3 => v_result.confidence_score < ConfidenceAt(m)
            /\ m >= 3 => v_result.confidence_score = ConfidenceAt(m)

\* four conflicts score what three do
C15_Witness ==
    /\ Scored
    /\ Len(v_result.conflicts) = 4
    /\ v_result.confidence_score = 30
    /\ ConfidenceAt(3) = 30
    /\ ConfidenceAt(2) = 36

(***************************************************************************)
(* The stages' payloads on their way through MasterAgent.process           *)
(***************************************************************************)

\* the i-th stage invoked by run r has returned a success result
StageSucceeded(r, i) ==
    /\ Len(outcomes[r]) >= i
    /\ ~StageFailed(outcomes[r][i])
    /\ outcomes[r][i].result.data # None

\* C17: whenever the eligibility stage completed and its result contains
\* a decision, the aggregated payload contains a final_decision with the
\* keys decision, confidence, explanation and recommendations.
C17_FinalDecisionBuilt ==
    \A r \in calls :
        (/\ Finalized(r)
         /\ StageSucceeded(r, 3)
         /\ "decision" \in DOMAIN outcomes[r][3].result.data) =>
            /\ "final_decision" \in DOMAIN final_result[r]
            /\ DOMAIN final_result[r]["final_decision"] =
                  {"decision", "confidence", "explanation", "recommendations"}

\* C18: after the validation stage succeeds, the input passed to the
\* eligibility stage has a validated_application_data key whose value is
\* the resolved_data of the reconciliation result of that validation stage.
C18_ResolvedDataPromoted ==
    \A r \in calls :
        (/\ Len(invoked[r]) >= 3
         /\ StageSucceeded(r, 2)
         /\ "validation_result" \in DOMAIN outcomes[r][2].result.data) =>
            LET eligibility_input == invoked[r][3].input
                reconciliation == outcomes[r][2].result.data.validation_result
            IN  /\ "validated_application_data" \in DOMAIN eligibility_input
                /\ eligibility_input["validated_application_data"] =
                      reconciliation.resolved_data

\* the validation stage of run r has got an input without application or
\* extracted data
ValidationInputMissing(r) ==
    /\ Len(invoked[r]) >= 2
    /\ invoked[r][2].step = "validation"
    /\ MissingApplicationOrExtracted(invoked[r][2].input)

\* what the orchestrator is left with once such an input is turned down
ValidationTurnedDown(r) ==
    /\ outcomes[r][2] = ValidationRejection
    /\ \E i \in 1..Len(Ctx(r).errors) :
          Ctx(r).errors[i] = ErrorRecord("validation", ValidationRejection.result.error)
    /\ "validation" \notin DOMAIN Ctx(r).results
    /\ Ctx(r).status # "failed"
    /\ step_idx[r] >= 3
    /\ LoopEnded(r) => /\ Len(invoked[r]) = 3
                       /\ invoked[r][3].step = "eligibility"

\* C19: a validation input whose application_data or extracted_data is
\* missing or empty is rejected before the reconciliation engine runs: no
\* ConflictRecord or resolved_data is computed, the stage is an immediate
\* stage failure (an error record for validation, no validation entry in
\* the stage results) without the collaborator being invoked, and the run
\* continues to eligibility.
C19_RejectedWithoutInvocation ==
    \A r \in calls :
        (/\ Validated(r)
         /\ step_idx[r] >= 3
         /\ MissingApplicationOrExtracted(input_data[r])) =>
            /\ \A i \in 1..Len(invoked[r]) : invoked[r][i].step # "validation"
            /\ \E i \in 1..Len(Ctx(r).errors) : Ctx(r).errors[i].step = "validation"
            /\ "validation" \notin DOMAIN Ctx(r).results
            /\ Ctx(r).status # "failed"
            /\ LoopEnded(r) => \E i \in 1..Len(invoked[r]) :
                                  invoked[r][i].step = "eligibility"

\* C19 as the code has it: the orchestrator does invoke the validation
\* collaborator, which turns such an input down before its reconciliation
\* engine runs: it returns an error result without payload, so no
\* ConflictRecord or resolved_data is computed, validation gets an error
\* record and no entry in the stage results, and the run continues to
\* eligibility.
C19_RejectedByCollaborator ==
    \A r \in calls :
        (ValidationInputMissing(r) /\ Len(outcomes[r]) >= 2) =>
            ValidationTurnedDown(r)

\* extraction gave no payload, validation turned its input down, and
\* eligibility was run
C19_Witness ==
    \E r \in calls :
        /\ ValidationInputMissing(r)
        /\ invoked[r][2].input["extracted_data"] = None
        /\ Len(outcomes[r]) = 3
        /\ ValidationTurnedDown(r)
        /\ LoopEnded(r)

(***************************************************************************)
(* Failures, errors and the end of a run                                   *)
(***************************************************************************)

\* the error records of run r that name the stage
ErrorsNaming(r, step) ==
    {j \in 1..Len(Ctx(r).errors) : Ctx(r).errors[j].step = step}

\* how a failure of the i-th invoked stage is left in the context of run r
FailureHandled(r, i, msg) ==
    LET step == invoked[r][i].step
    IN  /\ Cardinality(ErrorsNaming(r, step)) = 1
        /\ \A j \in ErrorsNaming(r, step) : Ctx(r).errors[j] = ErrorRecord(step, msg)
        /\ step \notin DOMAIN Ctx(r).results
        /\ IF step = "extraction"
           THEN /\ LoopEnded(r)
                /\ Ctx(r).status = "failed"
                /\ Len(invoked[r]) = 1
           ELSE /\ Ctx(r).status # "failed"
                /\ step_idx[r] > i
                /\ (LoopEnded(r) /\ i < Len(WorkflowSteps)) => Len(invoked[r]) > i

\* C21: a stage whose collaborator raises is handled exactly like one that
\* returns success=false: exactly one error record naming the stage, no
\* stage result for it, and the same policy (abort for extraction, continue
\* for validation and eligibility).
C21_RaiseHandledLikeFailure ==
    \A r \in calls :
        \A i \in 1..Len(outcomes[r]) :
            /\ outcomes[r][i].raised => FailureHandled(r, i, "step_execution_failed")
            /\ (~outcomes[r][i].raised /\ ~outcomes[r][i].result.success) =>
                   FailureHandled(r, i, outcomes[r][i].result.error)

\* validation raised, eligibility returned success=false, the run is over
C21_Witness ==
    \E r \in calls :
        /\ Len(outcomes[r]) = 3
        /\ outcomes[r][2].raised
        /\ ~outcomes[r][3].raised /\ ~outcomes[r][3].result.success
        /\ Len(Ctx(r).errors) = 2
        /\ pc[r] = "done"

\* extraction raised and the run was aborted
C21_WitnessAbort ==
    \E r \in calls :
        /\ Len(outcomes[r]) = 1
        /\ outcomes[r][1].raised
        /\ Ctx(r).status = "failed"
        /\ pc[r] = "done"

(***************************************************************************)
(* The observations of the reconciliation engine                           *)
(***************************************************************************)

\* _validate_information has returned and nothing is resolved yet
Observed == v_pc = "resolve"

\* the value application_data declares for the field, None without one
Declared(f) == Get(v_in.application_data, f)

\* C22: for every field with a non-empty declared value, the observation
\* under source application_form, in the ConflictRecord's value map and in
\* resolved_data, is the declared value, whatever document types and text
\* the extracted data has.
C22_DeclaredValueObserved ==
    Observed =>
        \A f \in Fields :
            Truthy(Declared(f)) =>
                /\ "application_form" \in DOMAIN v_result.resolved_data[f]
                /\ v_result.resolved_data[f]["application_form"] = Declared(f)
                /\ \A i \in RecordsFor(v_result, f) :
                      v_result.conflicts[i].values["application_form"] = Declared(f)

\* a source of the record's priority order has a non-empty value
HasPrioritySource(record) ==
    \E k \in 1..Len(record.priority_sources) :
        /\ record.priority_sources[k] \in DOMAIN record.values
        /\ Truthy(record.values[record.priority_sources[k]])

\* C23: every ConflictRecord the engine produces has a source of the
\* field's priority order with a non-empty value, so the resolution never
\* reaches the fallback to the first non-empty value in map order and
\* never returns None.
C23_FallbackNeverReached ==
    /\ Observed =>
          \A i \in 1..Len(v_result.conflicts) :
              /\ HasPrioritySource(v_result.conflicts[i])
              /\ \A src \in DOMAIN v_result.conflicts[i].values :
                    \E k \in 1..Len(v_result.conflicts[i].priority_sources) :
                        v_result.conflicts[i].priority_sources[k] = src
    /\ Reconciled =>
          \A i \in 1..Len(Reconciliation.conflicts) :
              LET record == Reconciliation.conflicts[i]
                  resolved == Reconciliation.resolved_data[record.field]
              IN  /\ resolved # None
                  /\ resolved = FirstPrioritySource(record.values, record.priority_sources)

\* a conflict on the income whose first priority source, the bank statement,
\* has no value: a later source of the order decides
C23_Witness ==
    /\ Reconciled
    /\ \E i \in 1..Len(Reconciliation.conflicts) :
          /\ Reconciliation.conflicts[i].field = "income"
          /\ "bank_statement" \notin DOMAIN Reconciliation.conflicts[i].values
          /\ DOMAIN Reconciliation.conflicts[i].values = {"application_form", "pay_stub"}
    /\ Reconciliation.resolved_data["income"] # None

\* C24: if every stage invocation eventually returns, every run of process
\* eventually reaches a terminal status, after at most three stage
\* invocations; a run leaves a stage invocation only by that stage returning
\* (no timeout, no cancellation), so a stage that never returns keeps the run
\* from ever reaching a terminal status.
C24_TerminatesIffStagesReturn ==
    /\ \A r \in Runs :
          ([]<>(pc[r] # "await")) =>
              <>(r \in calls => /\ pc[r] = "done"
                                /\ Validated(r) => Ctx(r).status \in TerminalStatuses)
    /\ [](\A r \in calls : Len(invoked[r]) <= 3)
    /\ [][\A r \in calls :
            (pc[r] = "await" /\ pc'[r] # "await") =>
                Len(outcomes'[r]) = Len(outcomes[r]) + 1]_vars
    /\ \A r \in Runs :
          (<>[](pc[r] = "await")) =>
              [](pc[r] # "done" /\ workflow[OwnContext(r)].status \notin TerminalStatuses)

\* all three stages were invoked and returned, and the run has its terminal
\* status and has returned
C24_Witness ==
    \E r \in calls :
        /\ pc[r] = "done"
        /\ Len(invoked[r]) = 3
        /\ Len(outcomes[r]) = 3
        /\ inflight[r] = {}
        /\ Ctx(r).status \in TerminalStatuses

\* the run waits for its second stage
C24_WitnessAwait ==
    \E r \in calls :
        /\ pc[r] = "await"
        /\ inflight[r] = {"validation"}
        /\ Ctx(r).status = "processing_validation"

\* C25: the terminal status 'incomplete' is unreachable: every invoked
\* stage leaves a stage result or an error record, the loop stops early only
\* with status 'failed', and so a run without errors has a result for all
\* three stages.
C25_IncompleteUnreachable ==
    \A r \in calls :
        (Validated(r) /\ pc[r] # "idle") =>
            /\ Ctx(r).status # "incomplete"
            /\ \A i \in 1..Len(outcomes[r]) :
                  \/ invoked[r][i].step \in DOMAIN Ctx(r).results
                  \/ ErrorsNaming(r, invoked[r][i].step) # {}
            /\ (LoopEnded(r) /\ Len(invoked[r]) < Len(WorkflowSteps)) =>
                  Ctx(r).status = "failed"
            /\ (LoopEnded(r) /\ Ctx(r).errors = <<>>) =>
                  DOMAIN Ctx(r).results = {"extraction", "validation", "eligibility"}

\* a finished run with two results and one error: not 'incomplete'
C25_Witness ==
    \E r \in calls :
        /\ Finalized(r)
        /\ Cardinality(DOMAIN Ctx(r).results) = 2
        /\ Len(Ctx(r).errors) = 1
        /\ Ctx(r).status = "completed_with_errors"

\* C26: at the end of a run no stage is both a key of the stage results and
\* the stage of an error record: a stage whose collaborator returned success,
\* with any payload the stage contract allows (none included), never gets an
\* error recorded against it.
C26_ResultsAndErrorsDisjoint ==
    \A r \in calls :
        (Validated(r) /\ LoopEnded(r)) =>
            /\ \A step \in DOMAIN Ctx(r).results : ErrorsNaming(r, step) = {}
            /\ \A i \in 1..Len(outcomes[r]) :
                  ~StageFailed(outcomes[r][i]) => ErrorsNaming(r, invoked[r][i].step) = {}

\* the sources of a value map that are documents
DocumentSources(values) == DOMAIN values \ {"application_form"}

C28_BonusAlwaysApplies ==
    Reconciled =>
        LET n == Len(Reconciliation.conflicts)
        IN  /\ n >= 1 =>
                  /\ DOMAIN Reconciliation.resolved_data = Fields
                  /\ Reconciliation.confidence_score = 48 - (IF 6 * n < 18 THEN 6 * n ELSE 18)
            /\ Reconciliation.confidence_score \in {60, 42, 36, 30}
            /\ v_ret.result.confidence_score = Reconciliation.confidence_score

\* two conflicts: 0.6
C28_Witness ==
    /\ Reconciled
    /\ Len(Reconciliation.conflicts) = 2
    /\ Reconciliation.confidence_score = 36

\* one conflict: 0.7
C28_WitnessOne ==
    /\ Reconciled
    /\ Len(Reconciliation.conflicts) = 1
    /\ v_ret.result.confidence_score = 42

\* the mean of the 'confidence' entries of the stage payloads, no penalty
UnpenalizedConfidence(ws) ==
    LET acc == SumConfidence(ws.results, ResultOrder(ws.results),
                             [raised |-> FALSE, total |-> 0, count |-> 0])
    IN  IF acc.count = 0 THEN 0 ELSE Max(0, Min(60, acc.total \div acc.count))

\* C29: whenever process returns a success result the error list of the
\* run is empty, so the error penalty is 0 in every confidence that is
\* handed to a caller: a returned pipeline confidence is never reduced by
\* recorded errors.
C29_ReturnedConfidenceUnpenalized ==
    \A r \in calls :
        (Returned(r) /\ ret[r].kind = "result" /\ ret[r].result.success) =>
            /\ Ctx(r).errors = <<>>
            /\ Min(Len(Ctx(r).errors) * 6, 18) = 0
            /\ ret[r].result.confidence_score = UnpenalizedConfidence(Ctx(r))

\* a success whose confidence is the one of the validation payload
C29_Witness ==
    \E r \in calls :
        /\ Returned(r)
        /\ ret[r].result.success
        /\ ret[r].result.confidence_score = 42
        /\ Ctx(r).errors = <<>>

\* the field is declared, with an empty or zero value
DeclaredEmpty(f) ==
    /\ f \in DOMAIN v_in.application_data
    /\ Declared(f) \in {VStr(""), VInt(0), VFloat(0)}

\* the value is not among the values of the map
NotAmong(value, values) == \A src \in DOMAIN values : values[src] # value

\* C30: a declared value that is present but empty or zero ('' or 0) is not
\* recorded as an observation: it is in no ConflictRecord, causes no conflict
\* with a document value, and is never the resolved value.
C30_EmptyDeclaredValueIgnored ==
    /\ Observed =>
          \A f \in Fields :
              DeclaredEmpty(f) =>
                  /\ NotAmong(Declared(f), v_result.resolved_data[f])
                  /\ RecordsFor(v_result, f) = {}
                  /\ v_result.resolved_data[f] =
                        CollectDocumentValues(f, FieldPriorities(f),
                                              v_in.extracted_data, EmptyDict)
    /\ Reconciled =>
          \A f \in Fields :
              DeclaredEmpty(f) =>
                  /\ \A i \in 1..Len(Reconciliation.conflicts) :
                        /\ Reconciliation.conflicts[i].field # f
                        /\ NotAmong(Declared(f), Reconciliation.conflicts[i].values)
                  /\ Reconciliation.resolved_data[f] # Declared(f)
                  /\ NotAmong(Declared(f), Reconciliation.resolved_data[f])

\* a declared income of 0 and a declared name '' next to a pay stub that
\* gives both: the documents' values are the only observations
C30_Witness ==
    /\ Reconciled
    /\ DeclaredEmpty("income")
    /\ DeclaredEmpty("name")
    /\ Reconciliation.resolved_data["income"] = [pay_stub |-> VFloat(5000)]
    /\ Reconciliation.resolved_data["name"] = [government_id |-> VStr("John Doe")]
    /\ Reconciliation.conflicts # <<>>

====
